---- MODULE Spec2Model ----
(***************************************************************************)
(* Model of the Allegro autoresponder (src/app/main.py, src/app/rules.py,  *)
(* src/app/allegro.py, src/app/config.py).                                 *)
(*                                                                         *)
(* Two coroutines run process_once on one asyncio event loop: the          *)
(* background poll_loop ("poll") and the POST /run-once handler ("run").   *)
(* A coroutine is suspended only at an await, so one action of the model   *)
(* is one stretch of code between two awaits: it starts when an HTTP       *)
(* response (or the sleep timer) resumes the coroutine and runs until the  *)
(* next request is sent.  Time is counted in minutes.                      *)
(***************************************************************************)
EXTENDS Integers, Sequences, FiniteSets, TLC

(* ------------------------------ bounds --------------------------------- *)
\* the clock advances in steps of TickStep minutes up to MaxClock
TickStep == 11
MaxClock == 11
\* the longest message list the remote returns for a thread; an issue chat
\* may hold one message more
MaxMsgs == 2
\* the history counts evaluations and posts of one message up to MaxCount
MaxCount == 2
MaxNow == 12

(* ------------------------- program constants --------------------------- *)
\* rules.py:30  timedelta(minutes=10)
ReplyWindow == 10
\* main.py:169  len(messages) > 2
IssueChatCap == 2
\* allegro.py:63  refresh 120 seconds (2 minutes) before the exact expiry
ExpiryMargin == 2

Passes == {"poll", "run"}
\* the client methods a coroutine can be suspended in
ThreadCalls == {"list_threads", "list_messages", "post_message"}
IssueCalls == {"list_issues", "list_issue_messages", "post_issue_message"}
Calls == ThreadCalls \cup IssueCalls
PostCalls == {"post_message", "post_issue_message"}
ThreadIds == {"t1", "t2"}
IssueIds == {"i1", "i2"}
\* Python's None, for an optional string
None == "None"

VARIABLES
  clock,        \* datetime.now(timezone.utc), in minutes
  settings,     \* config.Settings, the module global of main.py:32
  token,        \* AllegroClient._token
  token_expiry, \* AllegroClient._token_expiry
  pass,         \* per coroutine: the await it is suspended at and its locals
  decided,      \* what the latest step passed to and got from decide_autoreply
  logged,       \* the line the latest step logged about the entry it handled
  hist,         \* history: the successful reply posts to one buyer message
  upstream      \* the messages the remote holds for one conversation, where the
                \* remote is modelled with a memory; Spec lets it answer anything

vars == <<clock, settings, token, token_expiry, pass, decided, logged, hist, upstream>>

(* ----------------------------- timestamps ------------------------------ *)
\* a timestamp field of a payload is a string or is absent.  A string has a place
\* in the order of strings (key), by which list.sort compares, and, when
\* datetime.fromisoformat accepts it, the instant it denotes (t, in minutes).
\* Absent: no field, or an empty one; "" sorts before every other string
Absent == [kind |-> "absent", key |-> -1, t |-> 0]
\* the instant t written in UTC as "....Z": these strings sort as their instants
Iso(t) == [kind |-> "iso", key |-> t, t |-> t]
\* the instant t written with the offset "+02:00": the string shows the local
\* time, two hours ahead, and sorts by it
Offset(t) == [kind |-> "iso", key |-> t + 120, t |-> t]
\* the instant t written without any offset: fromisoformat returns a naive datetime
Naive(t) == [kind |-> "naive", key |-> t, t |-> t]
\* a string fromisoformat rejects, such as "yesterday": letters sort after digits
Unparseable == [kind |-> "bad", key |-> 1000, t |-> 0]

\* a datetime: aware (with a timezone) or naive
Aware(t) == [aware |-> TRUE, t |-> t]

\* parse_timestamp that never reads the string: it tells what C22 depends on
parse_timestamp_fallback(timestamp_str, fallback) == fallback

\* main.py:15-22
parse_timestamp(timestamp_str, fallback) ==
  IF timestamp_str.kind = "absent" THEN fallback
  ELSE IF timestamp_str.kind = "iso" THEN Aware(timestamp_str.t)
  ELSE IF timestamp_str.kind = "naive" THEN [aware |-> FALSE, t |-> timestamp_str.t]
  ELSE fallback

\* main.py:90-91 / 176-182: the sort key is the string of createdAt or, without
\* one, of created (creationDate is read as created is), or ""
ts_key(m) ==
  IF m.createdAt.kind # "absent" THEN m.createdAt.key
  ELSE IF m.created.kind # "absent" THEN m.created.key
  ELSE Absent.key

\* list.sort(key=_ts): stable, ascending
RECURSIVE Insert(_, _)
Insert(sorted, m) ==
  IF sorted = <<>> THEN <<m>>
  ELSE IF ts_key(sorted[Len(sorted)]) <= ts_key(m) THEN Append(sorted, m)
  ELSE Append(Insert(SubSeq(sorted, 1, Len(sorted) - 1), m), sorted[Len(sorted)])

RECURSIVE SortByTs(_)
SortByTs(messages) ==
  IF messages = <<>> THEN <<>>
  ELSE Insert(SortByTs(SubSeq(messages, 1, Len(messages) - 1)), messages[Len(messages)])

(* ----------------------------- rules.py -------------------------------- *)
\* rules.py:9-15
Decision(should_reply, message, reason) ==
  [should_reply |-> should_reply, message |-> message, reason |-> reason]

\* the hour of the day of instant now in time zone tz; instant 0 is 08:00 UTC, and
\* Europe/Warsaw is one hour ahead of UTC
astimezone_hour(now, tz) ==
  (8 + (IF tz = "UTC" THEN 0 ELSE 1) + now \div 60) % 24

\* rules.py:18-20
is_working_time(now, cfg) ==
  LET h == astimezone_hour(now, cfg.tz) IN
  cfg.work_hours_start <= h /\ h < cfg.work_hours_end

\* decide_autoreply gated on the working hours: it tells what C17 depends on
decide_autoreply_workhours(now, msg_time, cfg, is_issue) ==
  IF ~cfg.reply_outside_working_hours /\ ~is_working_time(now, cfg)
  THEN Decision(FALSE, None, "outside working hours")
  ELSE IF now - msg_time > ReplyWindow THEN Decision(FALSE, None, "message too old")
  ELSE IF is_issue THEN Decision(TRUE, cfg.autoresponse_issue, "issue")
  ELSE Decision(TRUE, cfg.autoresponse_message, "ask message")

\* decide_autoreply without the cutoff: it tells what C7 depends on
decide_autoreply_nocutoff(now, msg_time, cfg, is_issue) ==
  IF is_issue THEN Decision(TRUE, cfg.autoresponse_issue, "issue")
  ELSE Decision(TRUE, cfg.autoresponse_message, "ask message")

\* decide_autoreply with the cutoff at the boundary: it tells what C8 depends on
decide_autoreply_strict(now, msg_time, cfg, is_issue) ==
  IF now - msg_time >= ReplyWindow THEN Decision(FALSE, None, "message too old")
  ELSE IF is_issue THEN Decision(TRUE, cfg.autoresponse_issue, "issue")
  ELSE Decision(TRUE, cfg.autoresponse_message, "ask message")

\* decide_autoreply with the two templates exchanged: it tells what C21 depends on
decide_autoreply_swapped(now, msg_time, cfg, is_issue) ==
  IF now - msg_time > ReplyWindow THEN Decision(FALSE, None, "message too old")
  ELSE IF is_issue THEN Decision(TRUE, cfg.autoresponse_message, "issue")
  ELSE Decision(TRUE, cfg.autoresponse_issue, "ask message")

\* rules.py:23-35
decide_autoreply(now, msg_time, cfg, is_issue) ==
  IF now - msg_time > ReplyWindow THEN Decision(FALSE, None, "message too old")
  ELSE IF is_issue THEN Decision(TRUE, cfg.autoresponse_issue, "issue")
  ELSE Decision(TRUE, cfg.autoresponse_message, "ask message")

\* a call of decide_autoreply with its result, main.py:114-119 / 195-200; now is
\* aware, and the subtraction of rules.py:30 raises TypeError on a naive msg_time
Evaluate(now, msg_time, cfg, is_issue) ==
  LET decision == IF msg_time.aware
                  THEN decide_autoreply(now, msg_time.t, cfg, is_issue)
                  ELSE Decision(FALSE, None, "TypeError") IN
  [should_reply |-> decision.should_reply, message |-> decision.message,
   reason |-> decision.reason, now |-> now, msg_time |-> msg_time.t,
   is_issue |-> is_issue]

(* ----------------------------- config.py ------------------------------- *)
\* config.py:12-71: the settings read from the environment at start-up; the
\* refresh credential the process starts with is "r0"
Configs ==
  { [process_issues |-> pi, autoresponse_message |-> "first-contact",
     autoresponse_issue |-> "issue-template", refresh_token |-> "r0",
     tz |-> "Europe/Warsaw", work_hours_start |-> 9, work_hours_end |-> 17,
     reply_outside_working_hours |-> TRUE, reply_only_first_message |-> TRUE] :
    pi \in BOOLEAN }

(* ------------------------- remote payloads ----------------------------- *)
\* an entry of GET /messaging/threads: a thread with or without an id
Thread(id) == [id |-> id]
\* the pages GET /messaging/threads may return
ThreadBatches ==
  { <<>>, <<Thread("t1"), Thread("t2")>>, <<Thread(None), Thread("t2")>> }

\* an entry of GET /sale/issues: id and currentState.status (None: no currentState)
Issue(id, status) == [id |-> id, status |-> status]
\* a currentState that is not an object, such as a string: reading its status
\* (main.py:153) raises AttributeError
Malformed == "not an object"
\* the pages GET /sale/issues may return
IssueBatches ==
  { <<>>,
    <<Issue("i1", "DISPUTE_ONGOING"), Issue("i2", "DISPUTE_ONGOING")>>,
    <<Issue("i1", "DISPUTE_CLOSED"), Issue("i2", "DISPUTE_ONGOING")>>,
    <<Issue("i1", None), Issue("i2", "DISPUTE_ONGOING")>>,
    <<Issue("i1", Malformed), Issue("i2", "DISPUTE_ONGOING")>>,
    <<Issue(None, "DISPUTE_ONGOING"), Issue("i2", "DISPUTE_ONGOING")>> }

\* the creation times the remote may report
MsgTimes == {0, 1}
Stamps == {Absent} \cup {Iso(t) : t \in MsgTimes}
\* a message of GET /messaging/threads/{id}/messages: a question of the buyer,
\* or a stamped message that is none, or not the buyer's
\* (a missing author reads as isInterlocutor = FALSE, main.py:98-100)
ThreadMessages ==
  [createdAt : Stamps, created : {Absent}, isInterlocutor : {TRUE}, type : {"ASK_QUESTION"}]
    \cup [createdAt : {Iso(1)}, created : {Absent}, isInterlocutor : {TRUE}, type : {"OTHER"}]
    \cup [createdAt : {Iso(1)}, created : {Absent}, isInterlocutor : {FALSE},
          type : {"ASK_QUESTION"}]
\* a message of GET /sale/issues/{id}/chat
IssueMessages ==
  [createdAt : Stamps, created : {Absent}, role : {"BUYER"}]
    \cup [createdAt : {Iso(1)}, created : {Absent}, role : {"SELLER"}]

\* the lists of at most n messages, in whatever order the remote returns them
Lists(msgs, n) == UNION {[1..k -> msgs] : k \in 0..n}
ThreadPayloads == Lists(ThreadMessages, MaxMsgs)
\* the chats an issue may have: short ones, and the longest ones with one more
\* message of the buyer
IssuePayloads ==
  Lists(IssueMessages, MaxMsgs)
    \cup {Append(l, [createdAt |-> Iso(1), created |-> Absent, role |-> "BUYER"]) : l \in [1..MaxMsgs -> IssueMessages]}

\* what the token endpoint may answer
AccessTokens == {"", "tok"}
RefreshTokens == {None, "r1"}
ExpiresIn == {ExpiryMargin + TickStep}

(* ------------------------------ history -------------------------------- *)
\* the buyer messages whose replies are counted: a question in a thread, a
\* buyer's message in an issue chat
Events ==
  { [conv |-> "t1",
     msg |-> [createdAt |-> Iso(0), created |-> Absent, isInterlocutor |-> TRUE,
              type |-> "ASK_QUESTION"]],
    [conv |-> "i1", msg |-> [createdAt |-> Iso(0), created |-> Absent, role |-> "BUYER"]] }

Bump(n) == IF n < MaxCount THEN n + 1 ELSE n

\* message m of conversation c is the one whose replies are counted
Tracked(c, m) == hist.event = [conv |-> c, msg |-> m]

\* the remote accepted a reply to the counted message
Posted == [hist EXCEPT !.posts = Bump(@)]

(* --------------------------- coroutine state --------------------------- *)
NoDecision == [should_reply |-> FALSE, message |-> None, reason |-> "none",
               now |-> 0, msg_time |-> 0, is_issue |-> FALSE]
\* a log line: its text, and what it reports (the number of fetched messages,
\* the last message, the exception); tracked marks a line about the counted message
NoLog == [line |-> "none", n |-> 0, last |-> [createdAt |-> Absent], tracked |-> FALSE,
          error |-> "none"]
Log(line) == [NoLog EXCEPT !.line = line]

\* a coroutine outside process_once
Idle(pc) ==
  [pc |-> pc, phase |-> "none", now |-> 0, todo |-> <<>>, text |-> None, tracked |-> FALSE]

\* allegro.py:40: the cached token is used as it is
token_cached(tk, exp) == tk # None /\ tk # "" /\ clock < exp

\* allegro.py:83-84 and 39-57: a client method is entered; _ensure_token either
\* returns the cached token (the API request is sent) or sends the token request
Call(s, method, tk, exp) ==
  [s EXCEPT !.pc = method, !.phase = IF token_cached(tk, exp) THEN "http" ELSE "token"]

\* process_once returns: poll_loop goes to sleep (main.py:50), run_once answers
\* (main.py:246)
Return(p) == Idle(IF p = "poll" THEN "sleep" ELSE "idle")

\* poll_loop without its handler: the exception ends the polling task; it tells
\* what C2 depends on
Propagate_uncaught(p) == Idle(IF p = "poll" THEN "dead" ELSE "idle")

\* an exception leaves process_once: poll_loop catches and prints it and goes to
\* sleep (main.py:47-50); run_once has no handler and the framework answers
Propagate(p) == Idle(IF p = "poll" THEN "sleep" ELSE "idle")

\* the loop body starts on the first entry of todo, main.py:75 / 145
Entry(s, todo) ==
  [s EXCEPT !.todo = todo, !.now = clock, !.text = None, !.tracked = FALSE]

\* the for loop of process_issues without the check of the status: it tells
\* what C11 depends on
RECURSIVE issue_loop_anystatus(_, _, _, _, _)
issue_loop_anystatus(p, s, todo, tk, exp) ==
  IF todo = <<>> THEN Return(p)
  ELSE IF Head(todo).id = None THEN issue_loop_anystatus(p, s, Tail(todo), tk, exp)
  ELSE IF Head(todo).status = Malformed THEN Propagate(p)
  ELSE Call(Entry(s, todo), "list_issue_messages", tk, exp)

\* main.py:144-161: the for loop of process_issues over the entries todo, up to the
\* next await (the chat fetch) or the end of the list
RECURSIVE issue_loop(_, _, _, _, _)
issue_loop(p, s, todo, tk, exp) ==
  IF todo = <<>> THEN Return(p)
  ELSE IF Head(todo).id = None THEN issue_loop(p, s, Tail(todo), tk, exp)
  ELSE IF Head(todo).status = Malformed THEN Propagate(p)
  ELSE IF Head(todo).status # "DISPUTE_ONGOING" THEN issue_loop(p, s, Tail(todo), tk, exp)
  ELSE Call(Entry(s, todo), "list_issue_messages", tk, exp)

\* process_once without the check of the toggle: it tells what C18 depends on
after_threads_always(p, s, tk, exp) ==
  Call([Entry(s, <<>>) EXCEPT !.now = 0], "list_issues", tk, exp)

\* main.py:59-61 and 138-140: process_threads has returned
after_threads(p, s, tk, exp) ==
  IF settings.process_issues
  THEN Call([Entry(s, <<>>) EXCEPT !.now = 0], "list_issues", tk, exp)
  ELSE Return(p)

\* main.py:74-81: the for loop of process_threads over the entries todo, up to the
\* next await (the message fetch) or the end of the list
RECURSIVE thread_loop(_, _, _, _, _)
thread_loop(p, s, todo, tk, exp) ==
  IF todo = <<>> THEN after_threads(p, s, tk, exp)
  ELSE IF Head(todo).id = None THEN thread_loop(p, s, Tail(todo), tk, exp)
  ELSE Call(Entry(s, todo), "list_messages", tk, exp)

\* process_threads without the handler around the post: it tells what C4
\* depends on
Raise_uncaught(p, s, tk, exp) ==
  IF s.pc \in {"post_issue_message", "list_issue_messages"}
  THEN issue_loop(p, s, Tail(s.todo), tk, exp)
  ELSE Propagate(p)

\* an exception leaves the client method the coroutine is in: the handler that
\* catches it, if any (main.py:132-133, 213-214, 216-217), else it leaves process_once
Raise(p, s, tk, exp) ==
  IF s.pc = "post_message" THEN thread_loop(p, s, Tail(s.todo), tk, exp)
  ELSE IF s.pc \in {"post_issue_message", "list_issue_messages"}
       THEN issue_loop(p, s, Tail(s.todo), tk, exp)
  ELSE Propagate(p)

\* the line the handler that catches the exception prints (main.py:49, 133, 214,
\* 217); an exception that leaves run_once is reported by the framework
RaiseLine(p, s) ==
  IF s.pc = "post_message" THEN "post_message error"
  ELSE IF s.pc = "post_issue_message" THEN "post_issue_message error"
  ELSE IF s.pc = "list_issue_messages" THEN "processing error"
  ELSE IF p = "poll" THEN "[poll] error" ELSE "run_once: Internal Server Error"

\* the line about exception error, raised where coroutine p is
Caught(p, s, error) ==
  [Log(RaiseLine(p, s)) EXCEPT !.tracked = s.tracked, !.error = error]

\* main.py:152-156: what the for loop of process_issues prints about the entries
\* of todo it passes before the next await: the line of the exception that ends
\* it, else the line about an entry skipped for its status
RECURSIVE issue_loop_line(_, _, _)
issue_loop_line(p, s, todo) ==
  IF todo = <<>> THEN NoLog
  ELSE IF Head(todo).id = None THEN issue_loop_line(p, s, Tail(todo))
  ELSE IF Head(todo).status = Malformed THEN Caught(p, s, "AttributeError")
  ELSE IF Head(todo).status # "DISPUTE_ONGOING"
       THEN LET rest == issue_loop_line(p, s, Tail(todo)) IN
            IF rest.error # "none" THEN rest
            ELSE [Log("status is not DISPUTE_ONGOING, skipping") EXCEPT !.n = 0]
  ELSE NoLog

(* ------------------------------- actions ------------------------------- *)
Init ==
  /\ clock = 0
  /\ settings \in Configs
  /\ token = None                         \* allegro.py:29
  /\ token_expiry = 0                     \* allegro.py:30: now, at construction
  /\ pass = [p \in Passes |-> Idle(IF p = "poll" THEN "off" ELSE "idle")]
  /\ decided = NoDecision
  /\ logged = NoLog
  /\ \E e \in Events : hist = [event |-> e, posts |-> 0]
  /\ upstream = <<>>

\* main.py:53-57 and 66-68: process_once up to its first await
process_once(p) ==
  Call([Idle("list_threads") EXCEPT !.now = clock], "list_threads", token, token_expiry)

\* main.py:220-225: the start-up event creates the one polling task
on_startup ==
  /\ pass["poll"].pc = "off"
  /\ pass' = [pass EXCEPT !["poll"] = Idle("created")]
  /\ decided' = NoDecision /\ logged' = NoLog
  /\ UNCHANGED <<upstream, clock, settings, token, token_expiry, hist>>

\* a fixed-rate timer in place of the sleep after the work: it tells what C6
\* depends on
poll_loop_timer ==
  /\ pass["poll"].pc # "off"
  /\ pass' = [pass EXCEPT !["poll"] = process_once("poll")]
  /\ decided' = NoDecision /\ logged' = NoLog
  /\ UNCHANGED <<upstream, clock, settings, token, token_expiry, hist>>

\* main.py:42-46: the task starts, or asyncio.sleep(interval) (line 50) is over,
\* and the loop calls process_once
poll_loop ==
  /\ pass["poll"].pc \in {"created", "sleep"}
  /\ pass' = [pass EXCEPT !["poll"] = process_once("poll")]
  /\ decided' = NoDecision /\ logged' = NoLog
  /\ UNCHANGED <<upstream, clock, settings, token, token_expiry, hist>>

\* main.py:243-245: POST /run-once; one request is served at a time
run_once ==
  /\ pass["run"].pc = "idle"
  /\ pass' = [pass EXCEPT !["run"] = process_once("run")]
  /\ decided' = NoDecision /\ logged' = NoLog
  /\ UNCHANGED <<upstream, clock, settings, token, token_expiry, hist>>

\* allegro.py:58-81: the token endpoint answered 2xx with an access_token
\* (possibly an empty one, which the assert of line 79 rejects after the writes)
TokenOK(p, access, expires_in, new_refresh_token) ==
  LET exp == clock + expires_in - ExpiryMargin
      s == pass[p] IN
  /\ s.phase = "token"
  /\ token' = access
  /\ token_expiry' = exp
  /\ settings' = IF new_refresh_token # None /\ new_refresh_token # settings.refresh_token
                 THEN [settings EXCEPT !.refresh_token = new_refresh_token]
                 ELSE settings
  /\ pass' = [pass EXCEPT ![p] = IF access # "" THEN [s EXCEPT !.phase = "http"]
                                  ELSE Raise(p, s, access, exp)]
  /\ logged' = IF access # "" THEN NoLog
               ELSE Caught(p, s, "AssertionError")
  /\ decided' = NoDecision
  /\ UNCHANGED <<upstream, clock, hist>>

\* allegro.py:55-60: the token request failed (transport error, raise_for_status,
\* a body that is not JSON or has no access_token): nothing is written
TokenFail(p) ==
  /\ pass[p].phase = "token"
  /\ pass' = [pass EXCEPT ![p] = Raise(p, pass[p], token, token_expiry)]
  /\ logged' = Caught(p, pass[p], "HTTPError")
  /\ decided' = NoDecision
  /\ UNCHANGED <<upstream, clock, settings, token, token_expiry, hist>>

\* a client that drops its cached token when a request fails: it tells what C5
\* depends on
HttpFail_reset(p) ==
  /\ pass[p].phase = "http"
  /\ token' = None
  /\ pass' = [pass EXCEPT ![p] = Raise(p, pass[p], None, token_expiry)]
  /\ logged' = Caught(p, pass[p], "HTTPError")
  /\ decided' = NoDecision
  /\ UNCHANGED <<upstream, clock, settings, token_expiry, hist>>

\* an API request failed (transport error, timeout, raise_for_status)
HttpFail(p) ==
  /\ pass[p].phase = "http"
  /\ pass' = [pass EXCEPT ![p] = Raise(p, pass[p], token, token_expiry)]
  /\ logged' = Caught(p, pass[p], "HTTPError")
  /\ decided' = NoDecision
  /\ UNCHANGED <<upstream, clock, settings, token, token_expiry, hist>>

\* allegro.py:96-105 and main.py:69-81
ThreadsOK(p, threads) ==
  /\ pass[p].pc = "list_threads" /\ pass[p].phase = "http"
  /\ pass' = [pass EXCEPT ![p] =
                thread_loop(p, pass[p], threads, token, token_expiry)]
  /\ decided' = NoDecision /\ logged' = NoLog
  /\ UNCHANGED <<upstream, clock, settings, token, token_expiry, hist>>

\* the loop body of process_threads without the check of the message type: it
\* tells what C9 depends on
thread_body_anytype(p, s, messages) ==
  LET skip == thread_loop(p, s, Tail(s.todo), token, token_expiry) IN
  IF messages = <<>>
  THEN [next |-> skip, decision |-> NoDecision, log |-> NoLog]
  ELSE
    LET sorted == SortByTs(messages)
        last_message == sorted[Len(sorted)]
        seen(line) == [line |-> line, n |-> 0, last |-> last_message, tracked |-> FALSE,
                       error |-> "none"]
        is_from_interlocutor == last_message.isInterlocutor
        msg_time == parse_timestamp(last_message.createdAt, Aware(s.now))
        decision == Evaluate(s.now, msg_time, settings, FALSE)
    IN
    IF ~is_from_interlocutor
    THEN [next |-> skip, decision |-> NoDecision,
          log |-> seen("last message not from interlocutor, skipping")]
    ELSE IF decision.reason = "TypeError"
    THEN [next |-> Raise(p, s, token, token_expiry), decision |-> decision,
          log |-> Caught(p, s, "TypeError")]
    ELSE IF decision.should_reply /\ decision.message \notin {None, ""}
    THEN [next |-> Call([s EXCEPT !.text = decision.message,
                                  !.tracked = Tracked(Head(s.todo).id, last_message)],
                        "post_message", token, token_expiry),
          decision |-> decision, log |-> seen("decision")]
    ELSE [next |-> skip, decision |-> decision, log |-> seen("decision")]

\* the loop body of process_threads without the post: it tells what C12
\* depends on
thread_body_noreply(p, s, messages) ==
  LET skip == thread_loop(p, s, Tail(s.todo), token, token_expiry) IN
  IF messages = <<>>
  THEN [next |-> skip, decision |-> NoDecision, log |-> NoLog]
  ELSE
    LET sorted == SortByTs(messages)
        last_message == sorted[Len(sorted)]
        seen(line) == [line |-> line, n |-> 0, last |-> last_message, tracked |-> FALSE,
                       error |-> "none"]
        is_from_interlocutor == last_message.isInterlocutor
        is_ask_type == last_message.type = "ASK_QUESTION"
        msg_time == parse_timestamp(last_message.createdAt, Aware(s.now))
        decision == Evaluate(s.now, msg_time, settings, FALSE)
    IN
    IF ~is_from_interlocutor
    THEN [next |-> skip, decision |-> NoDecision,
          log |-> seen("last message not from interlocutor, skipping")]
    ELSE IF ~is_ask_type
    THEN [next |-> skip, decision |-> NoDecision,
          log |-> seen("last message not ASK_QUESTION, skipping")]
    ELSE IF decision.reason = "TypeError"
    THEN [next |-> Raise(p, s, token, token_expiry), decision |-> decision,
          log |-> Caught(p, s, "TypeError")]
    ELSE [next |-> skip, decision |-> decision, log |-> seen("decision")]

\* the loop body of process_threads without the check of the author: it tells
\* what C16 depends on
thread_body_anyauthor(p, s, messages) ==
  LET skip == thread_loop(p, s, Tail(s.todo), token, token_expiry) IN
  IF messages = <<>>
  THEN [next |-> skip, decision |-> NoDecision, log |-> NoLog]
  ELSE
    LET sorted == SortByTs(messages)
        last_message == sorted[Len(sorted)]
        seen(line) == [line |-> line, n |-> 0, last |-> last_message, tracked |-> FALSE,
                       error |-> "none"]
        is_ask_type == last_message.type = "ASK_QUESTION"
        msg_time == parse_timestamp(last_message.createdAt, Aware(s.now))
        decision == Evaluate(s.now, msg_time, settings, FALSE)
    IN
    IF ~is_ask_type
    THEN [next |-> skip, decision |-> NoDecision,
          log |-> seen("last message not ASK_QUESTION, skipping")]
    ELSE IF decision.reason = "TypeError"
    THEN [next |-> Raise(p, s, token, token_expiry), decision |-> decision,
          log |-> Caught(p, s, "TypeError")]
    ELSE IF decision.should_reply /\ decision.message \notin {None, ""}
    THEN [next |-> Call([s EXCEPT !.text = decision.message,
                                  !.tracked = Tracked(Head(s.todo).id, last_message)],
                        "post_message", token, token_expiry),
          decision |-> decision, log |-> seen("decision")]
    ELSE [next |-> skip, decision |-> decision, log |-> seen("decision")]

\* main.py:82-130: what the loop body of process_threads does with the fetched
\* messages, up to the next await
thread_body(p, s, messages) ==
  LET skip == thread_loop(p, s, Tail(s.todo), token, token_expiry) IN
  IF messages = <<>>
  THEN [next |-> skip, decision |-> NoDecision, log |-> NoLog]
  ELSE
    LET sorted == SortByTs(messages)
        last_message == sorted[Len(sorted)]
        seen(line) == [line |-> line, n |-> 0, last |-> last_message, tracked |-> FALSE,
                       error |-> "none"]
        is_from_interlocutor == last_message.isInterlocutor
        is_ask_type == last_message.type = "ASK_QUESTION"
        msg_time == parse_timestamp(last_message.createdAt, Aware(s.now))
        decision == Evaluate(s.now, msg_time, settings, FALSE)
    IN
    IF ~is_from_interlocutor
    THEN [next |-> skip, decision |-> NoDecision,
          log |-> seen("last message not from interlocutor, skipping")]
    ELSE IF ~is_ask_type
    THEN [next |-> skip, decision |-> NoDecision,
          log |-> seen("last message not ASK_QUESTION, skipping")]
    ELSE IF decision.reason = "TypeError"
    THEN [next |-> Raise(p, s, token, token_expiry), decision |-> decision,
          log |-> Caught(p, s, "TypeError")]
    ELSE IF decision.should_reply /\ decision.message \notin {None, ""}
    THEN [next |-> Call([s EXCEPT !.text = decision.message,
                                  !.tracked = Tracked(Head(s.todo).id, last_message)],
                        "post_message", token, token_expiry),
          decision |-> decision, log |-> seen("decision")]
    ELSE [next |-> skip, decision |-> decision, log |-> seen("decision")]

\* allegro.py:107-129 and main.py:82-130: the remote answered the message fetch
\* with one of the payloads, and the loop body ran on it
MessagesOK(p) ==
  LET s == pass[p] IN
  /\ s.pc = "list_messages" /\ s.phase = "http"
  /\ \E r \in {thread_body(p, s, messages) : messages \in ThreadPayloads} :
       /\ pass' = [pass EXCEPT ![p] = r.next]
       /\ decided' = r.decision
       /\ logged' = r.log
  /\ UNCHANGED <<upstream, clock, settings, token, token_expiry, hist>>

\* a post that is sent again after the remote accepted it: it tells what C1
\* depends on
PostOK_again(p) ==
  LET s == pass[p] IN
  /\ s.pc = "post_message" /\ s.phase = "http"
  /\ hist' = IF s.tracked THEN Posted ELSE hist
  /\ logged' = [Log("replied successfully") EXCEPT !.tracked = s.tracked]
  /\ decided' = NoDecision
  /\ UNCHANGED <<upstream, clock, settings, token, token_expiry, pass>>

\* allegro.py:131-139 and main.py:130-131: the remote accepted the reply
PostOK(p) ==
  LET s == pass[p] IN
  /\ s.pc = "post_message" /\ s.phase = "http"
  /\ hist' = IF s.tracked THEN Posted ELSE hist
  /\ pass' = [pass EXCEPT ![p] = thread_loop(p, s, Tail(s.todo), token, token_expiry)]
  /\ logged' = [Log("replied successfully") EXCEPT !.tracked = s.tracked]
  /\ decided' = NoDecision
  /\ UNCHANGED <<upstream, clock, settings, token, token_expiry>>

\* allegro.py:141-151 and main.py:141-161
IssuesOK(p, issues) ==
  /\ pass[p].pc = "list_issues" /\ pass[p].phase = "http"
  /\ pass' = [pass EXCEPT ![p] =
                issue_loop(p, pass[p], issues, token, token_expiry)]
  /\ decided' = NoDecision
  /\ logged' = issue_loop_line(p, pass[p], issues)
  /\ UNCHANGED <<upstream, clock, settings, token, token_expiry, hist>>

\* the loop body of process_issues without the cap on the chat: it tells what
\* C10 depends on
issue_body_nocap(p, s, messages) ==
  LET skip == issue_loop(p, s, Tail(s.todo), token, token_expiry) IN
  IF messages = <<>>
  THEN [next |-> skip, decision |-> NoDecision, log |-> NoLog]
  ELSE
    LET sorted == SortByTs(messages)
        last_message == sorted[Len(sorted)]
        seen(line) == [line |-> line, n |-> Len(messages), last |-> last_message, tracked |-> FALSE,
                       error |-> "none"]
        is_from_buyer == last_message.role = "BUYER"
        msg_time == parse_timestamp(last_message.createdAt, Aware(s.now))
        decision == Evaluate(s.now, msg_time, settings, TRUE)
    IN
    IF ~is_from_buyer
    THEN [next |-> skip, decision |-> NoDecision,
          log |-> seen("last message not from buyer, skipping")]
    ELSE IF decision.reason = "TypeError"
    THEN [next |-> Raise(p, s, token, token_expiry), decision |-> decision,
          log |-> Caught(p, s, "TypeError")]
    ELSE IF decision.should_reply /\ decision.message \notin {None, ""}
    THEN [next |-> Call([s EXCEPT !.text = decision.message,
                                  !.tracked = Tracked(Head(s.todo).id, last_message)],
                        "post_issue_message", token, token_expiry),
          decision |-> decision, log |-> seen("decision")]
    ELSE [next |-> skip, decision |-> decision, log |-> seen("decision")]

\* main.py:162-211: what the loop body of process_issues does with the fetched
\* chat, up to the next await
issue_body(p, s, messages) ==
  LET skip == issue_loop(p, s, Tail(s.todo), token, token_expiry) IN
  IF messages = <<>>
  THEN [next |-> skip, decision |-> NoDecision, log |-> NoLog]
  ELSE IF Len(messages) > IssueChatCap
  THEN [next |-> skip, decision |-> NoDecision,
        log |-> [Log("more than 2 messages, skipping") EXCEPT !.n = Len(messages)]]
  ELSE
    LET sorted == SortByTs(messages)
        last_message == sorted[Len(sorted)]
        seen(line) == [line |-> line, n |-> Len(messages), last |-> last_message, tracked |-> FALSE,
                       error |-> "none"]
        is_from_buyer == last_message.role = "BUYER"
        msg_time == parse_timestamp(last_message.createdAt, Aware(s.now))
        decision == Evaluate(s.now, msg_time, settings, TRUE)
    IN
    IF ~is_from_buyer
    THEN [next |-> skip, decision |-> NoDecision,
          log |-> seen("last message not from buyer, skipping")]
    ELSE IF decision.reason = "TypeError"
    THEN [next |-> Raise(p, s, token, token_expiry), decision |-> decision,
          log |-> Caught(p, s, "TypeError")]
    ELSE IF decision.should_reply /\ decision.message \notin {None, ""}
    THEN [next |-> Call([s EXCEPT !.text = decision.message,
                                  !.tracked = Tracked(Head(s.todo).id, last_message)],
                        "post_issue_message", token, token_expiry),
          decision |-> decision, log |-> seen("decision")]
    ELSE [next |-> skip, decision |-> decision, log |-> seen("decision")]

\* allegro.py:153-169 and main.py:162-211: the remote answered the chat fetch
\* with one of the payloads, and the loop body ran on it
IssueMessagesOK(p) ==
  LET s == pass[p] IN
  /\ s.pc = "list_issue_messages" /\ s.phase = "http"
  /\ \E r \in {issue_body(p, s, messages) : messages \in IssuePayloads} :
       /\ pass' = [pass EXCEPT ![p] = r.next]
       /\ decided' = r.decision
       /\ logged' = r.log
  /\ UNCHANGED <<upstream, clock, settings, token, token_expiry, hist>>

\* allegro.py:171-183 and main.py:211-212: the remote accepted the reply
IssuePostOK(p) ==
  LET s == pass[p] IN
  /\ s.pc = "post_issue_message" /\ s.phase = "http"
  /\ hist' = IF s.tracked THEN Posted ELSE hist
  /\ pass' = [pass EXCEPT ![p] = issue_loop(p, s, Tail(s.todo), token, token_expiry)]
  /\ logged' = [Log("replied successfully") EXCEPT !.tracked = s.tracked]
  /\ decided' = NoDecision
  /\ UNCHANGED <<upstream, clock, settings, token, token_expiry>>

\* time passes
Tick ==
  /\ clock + TickStep <= MaxClock
  /\ clock' = clock + TickStep
  /\ decided' = NoDecision /\ logged' = NoLog
  /\ UNCHANGED <<upstream, settings, token, token_expiry, pass, hist>>

\* the steps of coroutine p
Step(p) ==
  \/ \E a \in AccessTokens, e \in ExpiresIn, r \in RefreshTokens : TokenOK(p, a, e, r)
  \/ TokenFail(p)
  \/ HttpFail(p)
  \/ \E threads \in ThreadBatches : ThreadsOK(p, threads)
  \/ MessagesOK(p)
  \/ PostOK(p)
  \/ \E issues \in IssueBatches : IssuesOK(p, issues)
  \/ IssueMessagesOK(p)
  \/ IssuePostOK(p)

Next ==
  \/ on_startup
  \/ poll_loop
  \/ run_once
  \/ \E p \in Passes : Step(p)
  \/ Tick

Spec == Init /\ [][Next]_vars

(* ------------------------ the decision engine -------------------------- *)
\* the reply templates a configuration may hold
Templates == {"", "first-contact", "issue-template"}
TemplateConfigs ==
  {[c EXCEPT !.autoresponse_message = m, !.autoresponse_issue = i] :
     c \in Configs, m \in Templates, i \in Templates}

InitDecide ==
  /\ clock \in 0..MaxNow
  /\ settings \in TemplateConfigs
  /\ token = None
  /\ token_expiry = 0
  /\ pass = [p \in Passes |-> Idle(IF p = "poll" THEN "off" ELSE "idle")]
  /\ decided = NoDecision
  /\ logged = NoLog
  /\ hist = [event |-> CHOOSE e \in Events : e.conv = "t1", posts |-> 0]
  /\ upstream = <<>>

\* rules.py:23-35: decide_autoreply is called with the current time, the time of
\* a message and its category
Decide(msg_time, is_issue) ==
  /\ decided' = Evaluate(clock, Aware(msg_time), settings, is_issue)
  /\ UNCHANGED <<upstream, clock, settings, token, token_expiry, pass, logged, hist>>

NextDecide == \E msg_time \in 0..MaxNow, is_issue \in BOOLEAN : Decide(msg_time, is_issue)

SpecDecide == InitDecide /\ [][NextDecide]_vars

(* --------------------------- the loop bodies ---------------------------- *)
\* the timestamp strings a message may carry
RichStamps == {Absent, Unparseable, Offset(0), Naive(1)} \cup {Iso(t) : t \in MsgTimes}
\* the messages a thread may hold: questions of the buyer with any createdAt and
\* with or without a created field, a reply of the seller, a message of another type
RichThreadMessages ==
  [createdAt : RichStamps, created : {Absent, Iso(0)}, isInterlocutor : {TRUE},
   type : {"ASK_QUESTION"}]
    \cup [createdAt : {Iso(1)}, created : {Absent}, isInterlocutor : {FALSE},
          type : {"ASK_QUESTION"}]
    \cup [createdAt : {Iso(1)}, created : {Absent}, isInterlocutor : {TRUE}, type : {"OTHER"}]
RichIssueMessages ==
  [createdAt : RichStamps, created : {Absent, Iso(0)}, role : {"BUYER"}]
    \cup [createdAt : {Iso(1)}, created : {Absent}, role : {"SELLER"}]
RichThreadPayloads == Lists(RichThreadMessages, MaxMsgs)
RichIssuePayloads ==
  Lists(RichIssueMessages, MaxMsgs)
    \cup {Append(l, [createdAt |-> Iso(1), created |-> Absent, role |-> "BUYER"]) :
            l \in [1..MaxMsgs -> RichIssueMessages]}

\* configurations with both templates set, or both empty
\* config.py:38-44 and 63-68: the configurations that are c but for the time
\* zone, the start of the working hours and the two reply toggles
HourVariants(c) ==
  {[c EXCEPT !.tz = z, !.work_hours_start = h, !.reply_outside_working_hours = o,
             !.reply_only_first_message = f] :
     z \in {"Europe/Warsaw", "UTC"}, h \in {9, 10}, o \in BOOLEAN, f \in BOOLEAN}

BodyConfigs ==
  UNION {HourVariants(c) : c \in
    {c \in TemplateConfigs :
       \/ c.autoresponse_message = "first-contact" /\ c.autoresponse_issue = "issue-template"
       \/ c.autoresponse_message = "" /\ c.autoresponse_issue = ""}}

\* the polling pass has a valid token and waits for the messages of the first of
\* two threads, or for the chat of the first of two issues; the remote holds the
\* list upstream for it
InitBody ==
  /\ clock \in {0, TickStep}
  /\ settings \in BodyConfigs
  /\ token = "tok"
  /\ token_expiry = clock + 1
  /\ \/ /\ upstream \in RichThreadPayloads
        /\ pass = [p \in Passes |->
                     IF p = "run" THEN Idle("idle")
                     ELSE Call(Entry(Idle("list_threads"), <<Thread("t1"), Thread("t2")>>),
                               "list_messages", token, token_expiry)]
     \/ /\ upstream \in RichIssuePayloads
        /\ settings.process_issues
        /\ pass = [p \in Passes |->
                     IF p = "run" THEN Idle("idle")
                     ELSE Call(Entry(Idle("list_issues"),
                                     <<Issue("i1", "DISPUTE_ONGOING"),
                                       Issue("i2", "DISPUTE_ONGOING")>>),
                               "list_issue_messages", token, token_expiry)]
  /\ decided = NoDecision
  /\ logged = NoLog
  /\ hist = [event |-> CHOOSE e \in Events : e.conv = "t1", posts |-> 0]

\* main.py:81-130: the message fetch returns the list upstream and the loop body
\* of process_threads runs on it
FetchedMessages(p) ==
  LET s == pass[p]
      r == thread_body(p, s, upstream) IN
  /\ s.pc = "list_messages" /\ s.phase = "http"
  /\ pass' = [pass EXCEPT ![p] = r.next]
  /\ decided' = r.decision
  /\ logged' = r.log
  /\ UNCHANGED <<upstream, clock, settings, token, token_expiry, hist>>

\* main.py:161-211: the chat fetch returns the list upstream and the loop body of
\* process_issues runs on it
FetchedChat(p) ==
  LET s == pass[p]
      r == issue_body(p, s, upstream) IN
  /\ s.pc = "list_issue_messages" /\ s.phase = "http"
  /\ pass' = [pass EXCEPT ![p] = r.next]
  /\ decided' = r.decision
  /\ logged' = r.log
  /\ UNCHANGED <<upstream, clock, settings, token, token_expiry, hist>>

NextBody == FetchedMessages("poll") \/ FetchedChat("poll")

SpecBody == InitBody /\ [][NextBody]_vars

\* asyncio runs a coroutine whose awaited response or timer is there: every
\* outbound call of the polling task eventually returns or fails, and its sleep
\* eventually ends
(* ------------------- a remote that keeps the conversation ----------------- *)
\* the longest conversation the remote keeps
MaxLog == 3

\* the message the remote adds to conversation conv at instant t for the buyer
BuyerMessage(conv, t) ==
  IF conv = "t1"
  THEN [createdAt |-> Iso(t), created |-> Absent, isInterlocutor |-> TRUE,
        type |-> "ASK_QUESTION"]
  ELSE [createdAt |-> Iso(t), created |-> Absent, role |-> "BUYER"]

\* the message the remote adds to conversation conv at instant t for a reply it
\* accepted (allegro.py:131-139 / 171-183)
SellerReply(conv, t) ==
  IF conv = "t1"
  THEN [createdAt |-> Iso(t), created |-> Absent, isInterlocutor |-> FALSE,
        type |-> "ASK_QUESTION"]
  ELSE [createdAt |-> Iso(t), created |-> Absent, role |-> "SELLER"]

\* the remote holds one conversation, a thread or an ongoing issue, with the
\* buyer's first message; the service has just been constructed
InitUpstream ==
  /\ clock = 0
  /\ settings \in Configs
  /\ token = None
  /\ token_expiry = 0
  /\ pass = [p \in Passes |-> Idle(IF p = "poll" THEN "off" ELSE "idle")]
  /\ decided = NoDecision
  /\ logged = NoLog
  /\ \E e \in Events : /\ hist = [event |-> e, posts |-> 0, failed |-> 0]
                       /\ e.conv = "i1" => settings.process_issues
                       /\ upstream = <<e.msg>>

\* GET /messaging/threads answers with the thread the remote holds, if any
ListedThreads(p) ==
  ThreadsOK(p, IF hist.event.conv = "t1" THEN <<Thread("t1")>> ELSE <<>>)

\* GET /sale/issues answers with the issue the remote holds, if any
ListedIssues(p) ==
  IssuesOK(p, IF hist.event.conv = "i1" THEN <<Issue("i1", "DISPUTE_ONGOING")>> ELSE <<>>)

\* allegro.py:131-139 / 171-183 and main.py:130-131 / 211-212: the remote accepted
\* the reply and shows it as the newest message of the conversation from now on
PostedAndShown(p) ==
  LET s == pass[p] IN
  /\ s.pc \in PostCalls /\ s.phase = "http"
  /\ Len(upstream) < MaxLog
  /\ upstream' = Append(upstream, SellerReply(hist.event.conv, clock))
  /\ hist' = IF s.tracked THEN Posted ELSE hist
  /\ pass' = [pass EXCEPT ![p] =
                IF s.pc = "post_message"
                THEN thread_loop(p, s, Tail(s.todo), token, token_expiry)
                ELSE issue_loop(p, s, Tail(s.todo), token, token_expiry)]
  /\ logged' = [Log("replied successfully") EXCEPT !.tracked = s.tracked]
  /\ decided' = NoDecision
  /\ UNCHANGED <<clock, settings, token, token_expiry>>

\* allegro.py:137 / 180 and main.py:132-133 / 213-214: the post request failed
\* (transport error, timeout, raise_for_status); the handler around the post
\* prints it and the loop goes on; hist counts the failed replies to the counted
\* message
PostFailed(p) ==
  LET s == pass[p] IN
  /\ s.pc \in PostCalls /\ s.phase = "http"
  /\ hist' = IF s.tracked THEN [hist EXCEPT !.failed = Bump(@)] ELSE hist
  /\ pass' = [pass EXCEPT ![p] = Raise(p, s, token, token_expiry)]
  /\ logged' = Caught(p, s, "HTTPError")
  /\ decided' = NoDecision
  /\ UNCHANGED <<upstream, clock, settings, token, token_expiry>>

\* the buyer writes another message to the conversation
BuyerWrites ==
  /\ Len(upstream) < MaxLog
  /\ upstream' = Append(upstream, BuyerMessage(hist.event.conv, clock))
  /\ decided' = NoDecision /\ logged' = NoLog
  /\ UNCHANGED <<clock, settings, token, token_expiry, pass, hist>>

\* the polling task alone, cycle after cycle, against the remote's conversation
NextUpstream ==
  \/ on_startup
  \/ poll_loop
  \/ \E a \in AccessTokens, e \in ExpiresIn, r \in RefreshTokens : TokenOK("poll", a, e, r)
  \/ TokenFail("poll")
  \/ pass["poll"].pc \notin PostCalls /\ HttpFail("poll")
  \/ PostFailed("poll")
  \/ ListedThreads("poll")
  \/ FetchedMessages("poll")
  \/ PostOK("poll")
  \/ ListedIssues("poll")
  \/ FetchedChat("poll")
  \/ IssuePostOK("poll")
  \/ PostedAndShown("poll")
  \/ BuyerWrites
  \/ Tick

SpecUpstream == InitUpstream /\ [][NextUpstream]_vars

FairSpec == Spec /\ WF_vars(Step("poll")) /\ WF_vars(poll_loop)

(* ------------------------------- claims -------------------------------- *)
\* the lines under which an exception leaves process_once
EscapeLines == {"[poll] error", "run_once: Internal Server Error"}
\* the lines a coroutine prints when a reply post is over
PostLines == {"replied successfully", "post_message error", "post_issue_message error"}

\* C1, as stated: the counted message never has two or more successful reply
\* posts, and has exactly one once a pass that evaluated it is done with its post.
C1_ExactlyOnce ==
  /\ hist.posts < 2
  /\ (logged.tracked /\ logged.line \in PostLines => hist.posts = 1)

\* C1, amended: a pass that evaluates the counted message and decides to reply
\* sends one post for it; only such a post, when the remote accepts it, adds one
\* to the successful posts, and it ends that pass's work on the message, so the
\* successful posts are at most one per pass that evaluated the message.
C1_OnePostPerEvaluation ==
  [][ /\ hist'.event = hist.event
      /\ hist'.posts # hist.posts =>
           /\ hist'.posts = hist.posts + 1
           /\ logged'.line = "replied successfully"
           /\ \E p \in Passes : /\ pass[p].pc \in PostCalls /\ pass[p].tracked
                                /\ pass[p].phase = "http"
                                /\ ~pass'[p].tracked
      /\ \A p \in Passes :
           pass'[p].tracked /\ ~pass[p].tracked =>
             /\ pass'[p].pc \in PostCalls
             /\ logged'.line = "decision" /\ logged'.last = hist.event.msg
             /\ decided'.should_reply /\ pass'[p].text = decided'.message ]_vars

\* two passes have each posted a reply to the counted message
C1_Witness == hist.posts = 2

\* C2: every iteration of the polling loop ends in the inter-cycle sleep, whether
\* process_once returned or raised, and every sleep is followed by the next
\* iteration.
C2_PollNeverStops ==
  /\ (pass["poll"].pc \in Calls) ~> (pass["poll"].pc = "sleep")
  /\ (pass["poll"].pc = "sleep") ~> (pass["poll"].pc = "list_threads")

\* an iteration of the polling loop has failed and the loop sleeps
C2_Witness ==
  /\ pass["poll"].pc = "sleep" /\ pass["run"].pc = "idle"
  /\ logged.line = "[poll] error"

\* C3, as stated: a failure of a thread's message fetch or reply post does not
\* leave process_once: no exception escapes, and the pass ends there only if
\* no thread is left to evaluate and issue processing is switched off.
C3_ThreadFailureContained ==
  [][ \A p \in Passes :
        pass[p].pc \in {"list_messages", "post_message"} /\ pass'[p] # pass[p] =>
          /\ logged'.line \notin EscapeLines
          /\ pass'[p].pc \notin Calls =>
               /\ ~settings.process_issues
               /\ \A k \in 2..Len(pass[p].todo) : pass[p].todo[k].id = None ]_vars

\* C4: when a thread's reply post fails, the failure is logged and the loop goes
\* on: the messages of the next thread that has an id are fetched, or, after the
\* last thread, process_threads returns and process_once continues.
C4_PostFailureCaught ==
  [][ \A p \in Passes :
        pass[p].pc = "post_message" /\ pass'[p] # pass[p]
          /\ logged'.line = "post_message error" =>
        LET rest == Tail(pass[p].todo)
            ids == {k \in 1..Len(rest) : rest[k].id # None} IN
        IF ids # {}
        THEN LET k == CHOOSE i \in ids : \A j \in ids : i <= j IN
             /\ pass'[p].pc = "list_messages"
             /\ pass'[p].todo = SubSeq(rest, k, Len(rest))
        ELSE IF settings.process_issues THEN pass'[p].pc = "list_issues"
        ELSE pass'[p].pc = (IF p = "poll" THEN "sleep" ELSE "idle") ]_vars

\* the post to the first of two threads failed and the second is being fetched
C4_Witness ==
  /\ logged.line = "post_message error"
  /\ pass["run"].pc = "idle" /\ pass["poll"].pc = "list_messages"
  /\ Len(pass["poll"].todo) = 1

\* C5, as stated: the two passes share the configuration and nothing else: while
\* the other pass is under way, a step of a pass writes none of the state the
\* other one reads, the configuration apart.
C5_OnlyConfigurationShared ==
  [][ \A p, q \in Passes :
        p # q /\ pass[q].pc \in Calls /\ pass'[p] # pass[p] =>
          token' = token /\ token_expiry' = token_expiry ]_vars

\* C5, amended: the two passes share the configuration and the client's cached
\* access token with its expiry, and nothing else: a step of one pass leaves the
\* position, the pending entries, the captured time and the reply text of the
\* other as they are, and the token, its expiry and the refresh credential change
\* only in the step of a pass that handles the answer to its own token request,
\* all three from that one answer.
C5_SharedTokenCache ==
  [][ /\ \A p, q \in Passes : p # q /\ pass'[p] # pass[p] => pass'[q] = pass[q]
      /\ (token' # token \/ token_expiry' # token_expiry \/ settings' # settings) =>
           /\ \E p \in Passes : pass[p].phase = "token" /\ pass'[p] # pass[p]
           /\ token' \in AccessTokens
           /\ \E e \in ExpiresIn : token_expiry' = clock + e - ExpiryMargin
           /\ \E r \in RefreshTokens :
                settings' = IF r = None THEN settings
                            ELSE [settings EXCEPT !.refresh_token = r] ]_vars

\* a pass waits for the answer to its token request while the token the other
\* pass obtained is cached and valid: the exchange is done twice
C5_Witness ==
  /\ token = "tok" /\ clock < token_expiry
  /\ pass["run"].phase = "token" /\ pass["poll"].pc \in Calls

\* C6: the polling task is created once; an iteration starts only when the task
\* has just been created or its sleep is over, never while an iteration is under
\* way; an iteration ends in the sleep, and the sleep ends in the next iteration.
C6_NoOverlap ==
  [][ LET a == pass["poll"].pc
          b == pass'["poll"].pc IN
      /\ b = "list_threads" /\ a # "list_threads" => a \in {"created", "sleep"}
      /\ a \in Calls => b \in Calls \cup {"sleep"}
      /\ a = "sleep" => b \in {"sleep", "list_threads"}
      /\ b = "created" => a \in {"off", "created"} ]_vars

\* an iteration that took time is over and the loop sleeps
C6_Witness ==
  /\ pass["poll"].pc = "sleep" /\ pass["run"].pc = "idle"
  /\ clock > 0 /\ logged.line = "replied successfully"

\* C7: a call of decide_autoreply with a message older than the window answers
\* not to reply, with no message, whatever the category; and a pass sends a reply
\* post only after a decision on a message within the window.
C7_TooOldNeverReplied ==
  /\ [](decided.reason # "none" /\ decided.now - decided.msg_time > ReplyWindow =>
          ~decided.should_reply /\ decided.message = None)
  /\ [][ \A p \in Passes :
           pass'[p].pc \in PostCalls /\ pass[p].pc \notin PostCalls =>
             /\ decided'.should_reply
             /\ decided'.now - decided'.msg_time <= ReplyWindow ]_vars

\* the last message of an issue was older than the window and got no reply
C7_Witness ==
  /\ decided.reason = "message too old" /\ decided.is_issue
  /\ decided.now - decided.msg_time > ReplyWindow
  /\ \A p \in Passes : pass[p].pc \notin PostCalls

\* C8: a call of decide_autoreply with a message of age at most the window, the
\* boundary included, answers to reply, with the issue template for an issue and
\* the first-contact template for a question.
C8_WithinWindowReplies ==
  decided.reason # "none" /\ decided.now - decided.msg_time <= ReplyWindow =>
    /\ decided.should_reply
    /\ decided.message = IF decided.is_issue THEN settings.autoresponse_issue
                         ELSE settings.autoresponse_message

\* a message exactly as old as the window got the reply decision
C8_Witness ==
  /\ decided.now - decided.msg_time = ReplyWindow
  /\ decided.should_reply /\ decided.reason = "issue"

\* C9: a pass sends a reply post to a thread only when the last of the fetched
\* messages, in the order of their creation times, is from the interlocutor and
\* is a question.
C9_ThreadReplyFilter ==
  [][ \A p \in Passes :
        pass'[p].pc = "post_message" /\ pass[p].pc # "post_message" =>
          /\ logged'.line = "decision"
          /\ logged'.last.isInterlocutor
          /\ logged'.last.type = "ASK_QUESTION" ]_vars

\* a thread whose last message is not a question was fetched and skipped
C9_Witness ==
  /\ logged.line = "last message not ASK_QUESTION, skipping"
  /\ logged.last.isInterlocutor
  /\ \A p \in Passes : pass[p].pc # "post_message"

\* C10: a pass sends a reply post to an issue only when the fetched chat has at
\* most two messages and the last of them, in the order of their creation times,
\* is from the buyer.
C10_IssueReplyFilter ==
  [][ \A p \in Passes :
        pass'[p].pc = "post_issue_message" /\ pass[p].pc # "post_issue_message" =>
          /\ logged'.line = "decision"
          /\ logged'.n <= IssueChatCap
          /\ logged'.last.role = "BUYER" ]_vars

\* a chat of three messages was fetched and skipped
C10_Witness ==
  /\ logged.line = "more than 2 messages, skipping" /\ logged.n > IssueChatCap
  /\ \A p \in Passes : pass[p].pc # "post_issue_message"

\* C11: whatever call of process_issues a pass waits for, the chat fetch or the
\* reply post, it is for an issue whose status is DISPUTE_ONGOING: an issue of any
\* other status, or of none, gets no call.
C11_OnlyOngoingIssues ==
  \A p \in Passes :
    pass[p].pc \in {"list_issue_messages", "post_issue_message"} =>
      /\ Head(pass[p].todo).id # None
      /\ Head(pass[p].todo).status = "DISPUTE_ONGOING"

\* the first issue of the batch was skipped for its status and the chat of the
\* second is being fetched
C11_Witness ==
  /\ logged.line = "status is not DISPUTE_ONGOING, skipping"
  /\ \E p \in Passes : pass[p].pc = "list_issue_messages" /\ Head(pass[p].todo).id = "i2"

\* C12, as stated: whenever the loop body of a processor has got a decision to
\* reply, the pass goes on to post the message of the decision to the same
\* thread or issue, whatever the template.
C12_PostWheneverShouldReply ==
  [][ \A p \in Passes :
        pass'[p] # pass[p] /\ logged'.line = "decision" /\ decided'.should_reply =>
          /\ pass'[p].pc = (IF decided'.is_issue THEN "post_issue_message"
                            ELSE "post_message")
          /\ pass'[p].text = decided'.message
          /\ pass'[p].todo = pass[p].todo ]_vars

\* C12, amended: the pass goes on to post exactly when the decision is to reply
\* and its message, the configured template, is not empty; the post carries the
\* message of the decision and goes to the thread or issue just evaluated.
C12_PostWhenMessageNotEmpty ==
  [][ \A p \in Passes :
        pass'[p] # pass[p] /\ logged'.line = "decision" =>
          ( decided'.should_reply /\ decided'.message \notin {None, ""}
            <=> /\ pass'[p].pc = (IF decided'.is_issue THEN "post_issue_message"
                                  ELSE "post_message")
                /\ pass'[p].text = decided'.message
                /\ pass'[p].todo = pass[p].todo ) ]_vars

\* the first-contact template is being posted to a thread whose last message is
\* a recent question of the buyer
C12_Witness ==
  /\ logged.line = "decision" /\ decided.should_reply
  /\ pass["poll"].pc = "post_message" /\ pass["poll"].text = "first-contact"
  /\ logged.last.isInterlocutor /\ logged.last.type = "ASK_QUESTION"

\* C13, as stated: no failure in the handling of one issue leaves process_issues:
\* the only exception that gets out of issue processing is the failure of the
\* fetch of the issue list itself.
C13_IssueFailureContained ==
  [][ \A p \in Passes :
        pass'[p] # pass[p] /\ pass[p].pc \in IssueCalls /\ logged'.line \in EscapeLines =>
          /\ pass[p].pc = "list_issues"
          /\ logged'.error \in {"HTTPError", "AssertionError"} ]_vars

\* C14, as stated: when every request succeeds, whatever the fetched data (no
\* messages, no timestamp, a timestamp that cannot be parsed or has no offset),
\* no exception leaves the handling of the item: the body of the loop ends in a
\* skip, a decision or a post, never in an exception that leaves process_once.
C14_MalformedDataSkipped ==
  [][ \A p \in Passes :
        pass'[p] # pass[p] /\ pass[p].pc \in {"list_messages", "list_issue_messages"} =>
          /\ logged'.line \notin EscapeLines
          /\ logged'.error = "none"
               => pass'[p].pc \in {"list_messages", "list_issue_messages", "list_issues"}
                                     \cup PostCalls
                  \/ Len(pass[p].todo) = 1 ]_vars

\* the lines a loop body prints once it has taken the last message of the list
LastLines ==
  {"decision", "last message not from interlocutor, skipping",
   "last message not ASK_QUESTION, skipping", "last message not from buyer, skipping"}

\* C15, as stated: the message a loop body examines is the chronologically last
\* of the fetched list, those without a timestamp counting as the earliest:
\* when every timestamp of the list denotes an instant, no message of the list
\* is later than the examined one.
C15_ChronologicallyLast ==
  LET stamp(m) == IF m.createdAt.kind # "absent" THEN m.createdAt ELSE m.created
      instant(m) == IF stamp(m).kind = "absent" THEN -1 ELSE stamp(m).t
  IN  /\ logged.line \in LastLines
      /\ \A k \in 1..Len(upstream) : stamp(upstream[k]).kind \in {"absent", "iso"}
      => /\ \E k \in 1..Len(upstream) : upstream[k] = logged.last
         /\ \A k \in 1..Len(upstream) : instant(upstream[k]) <= instant(logged.last)

\* C19, as stated: the message time handed to decide_autoreply is the instant of
\* the timestamp by which the examined message was ordered, and is the current
\* time only when that timestamp is absent or cannot be parsed.
C19_MessageTimeIsOrderingStamp ==
  logged.line = "decision" =>
    LET m == logged.last
        stamp == IF m.createdAt.kind # "absent" THEN m.createdAt ELSE m.created
    IN  decided.msg_time = IF stamp.kind = "iso" THEN stamp.t ELSE decided.now

\* C18: within one pass the threads come first: the issue API is called only once
\* the processing of the threads has returned (no thread with an id is left, no
\* exception has left it) and only when process_issues is true; no pass goes
\* from the issues back to the threads; with the toggle false no issue call is
\* ever made.
C18_ThreadsThenIssues ==
  [][ \A p \in Passes :
        /\ pass'[p].pc \in IssueCalls => settings.process_issues
        /\ pass[p].pc \in IssueCalls => pass'[p].pc \notin ThreadCalls
        /\ pass[p].pc \notin IssueCalls /\ pass'[p].pc \in IssueCalls =>
             /\ pass[p].pc \in ThreadCalls
             /\ pass'[p].pc = "list_issues"
             /\ \A k \in 2..Len(pass[p].todo) : pass[p].todo[k].id = None
             /\ pass[p].pc \in {"list_threads", "list_messages"} => logged'.error = "none" ]_vars
\* a pass with the toggle on has answered the last thread and is calling the
\* issue list
C18_Witness ==
  /\ settings.process_issues
  /\ pass["run"].pc = "list_issues"
  /\ logged.line = "replied successfully"

\* C20, as stated: the refresh credential of the configuration is written only by
\* a step of the token acquisition, and a token exchange that fails (an exception
\* leaves _ensure_token) leaves the refresh credential, the cached access token
\* and its expiry as they were.
C20_FailedExchangeWritesNothing ==
  [][ /\ settings' # settings =>
           \E p \in Passes : pass[p].phase = "token" /\ pass'[p] # pass[p]
      /\ \A p \in Passes :
           pass[p].phase = "token" /\ pass'[p] # pass[p] /\ logged'.error # "none" =>
             UNCHANGED <<settings, token, token_expiry>> ]_vars

\* C17: the decision of a loop body and the post that follows it are those of
\* every configuration that differs from the one in force only in the time zone,
\* the working hours, the reply-outside-working-hours toggle or the
\* reply-only-first-message toggle.
C17_HoursAndTogglesIrrelevant ==
  [][ \A p \in Passes :
        pass'[p] # pass[p] /\ logged'.line = "decision" =>
          \A c \in HourVariants(settings) :
            LET d == Evaluate(decided'.now, Aware(decided'.msg_time), c, decided'.is_issue) IN
            /\ decided' = d
            /\ pass'[p].pc \in PostCalls <=> d.should_reply /\ d.message \notin {None, ""}
            /\ pass'[p].pc \in PostCalls => pass'[p].text = d.message ]_vars
\* a reply is being posted outside the working hours although the toggle for
\* replies outside the working hours is off
C17_Witness ==
  /\ ~settings.reply_outside_working_hours
  /\ ~is_working_time(decided.now, settings)
  /\ decided.should_reply
  /\ pass["poll"].pc \in PostCalls /\ pass["poll"].text = decided.message

\* the newest message of the conversation the remote holds
Latest == upstream[Len(upstream)]
\* the newest message is the buyer's and at most ReplyWindow old at instant now
BuyerIsLatest(now) ==
  /\ upstream # <<>>
  /\ IF hist.event.conv = "t1" THEN Latest.isInterlocutor ELSE Latest.role = "BUYER"
  /\ now - Latest.createdAt.t <= ReplyWindow

\* C16: over the cycles of the polling task a reply is posted only while the
\* newest message of the conversation is the buyer's and at most 10 minutes old:
\* once the remote shows the reply as the newest message no cycle posts again
\* until the buyer writes anew; and as long as the remote still shows the buyer's
\* recent message as the newest, every cycle that fetches the conversation
\* decides to reply and posts again.
C16_DedupByUpstream ==
  [][ LET s == pass["poll"] IN
      /\ pass'["poll"].pc \in PostCalls /\ s.pc \notin PostCalls => BuyerIsLatest(s.now)
      /\ /\ s.pc \in {"list_messages", "list_issue_messages"} /\ s.phase = "http"
         /\ pass'["poll"] # s /\ logged'.error = "none"
         /\ BuyerIsLatest(s.now)
         /\ s.pc = "list_issue_messages" => Len(upstream) <= IssueChatCap
         => /\ logged'.line = "decision" /\ decided'.should_reply
            /\ pass'["poll"].pc \in PostCalls ]_vars
\* the buyer's message was answered twice while the remote still showed it as the
\* newest; now the remote shows the reply and the cycle has skipped the
\* conversation
C16_Witness ==
  /\ hist.posts = 2
  /\ Len(upstream) = 2 /\ ~BuyerIsLatest(clock)
  /\ logged.line \in {"last message not from interlocutor, skipping",
                      "last message not from buyer, skipping"}

\* C21: within a pass a post call is entered only from the fetch of the entry the
\* loop is at, it is addressed to the identifier of that entry, an entry of the
\* fetched list, and carries the first-contact template for a thread and the
\* issue template for an issue; once the call is over the loop has left the
\* entry, so that no entry gets a second post, and no other mutating call exists.
C21_OnePostPerEntry ==
  [][ \A p \in Passes :
        LET s == pass[p]
            n == pass'[p] IN
        /\ n.pc = "post_message" =>
             /\ n.todo # <<>> /\ Head(n.todo).id \in ThreadIds
             /\ n.text = settings'.autoresponse_message
        /\ n.pc = "post_issue_message" =>
             /\ n.todo # <<>> /\ Head(n.todo).id \in IssueIds
             /\ n.text = settings'.autoresponse_issue
        /\ n.pc \in PostCalls /\ s.pc # n.pc =>
             /\ s.pc = (IF n.pc = "post_message" THEN "list_messages"
                        ELSE "list_issue_messages")
             /\ s.todo = n.todo
        /\ s.pc \in PostCalls /\ n # s =>
             \/ n.pc = s.pc /\ n.todo = s.todo /\ n.text = s.text
             \/ /\ n.pc \notin PostCalls
                /\ n.pc \in {"list_messages", "list_issue_messages"} =>
                     Len(n.todo) < Len(s.todo) ]_vars
\* the reply to the first issue was accepted and the pass now posts the issue
\* template to the second
C21_Witness ==
  \E p \in Passes :
    /\ pass[p].pc = "post_issue_message" /\ pass[p].phase = "http"
    /\ Head(pass[p].todo).id = "i2"
    /\ pass[p].text = settings.autoresponse_issue
    /\ hist.event.conv = "i1" /\ hist.posts >= 1

\* C22: once a reply post for the counted buyer message (its createdAt parses to
\* an instant) has failed, every later cycle that fetches the conversation and
\* finds that message still the newest posts again exactly when the message is
\* at most 10 minutes old at the time the cycle reads for it; no post for it is
\* entered once it is older, and the failure has stopped neither the pass nor
\* the polling task.
C22_RetryWithinWindow ==
  [][ LET s == pass["poll"]
          n == pass'["poll"]
          m == hist.event.msg
          age == s.now - m.createdAt.t IN
      /\ hist'.failed # hist.failed =>
           /\ n.pc \in Calls \cup {"sleep"}
           /\ UNCHANGED <<upstream, settings, token, token_expiry>>
      /\ hist.failed > 0 /\ m.createdAt.kind = "iso" =>
           /\ /\ s.pc \in {"list_messages", "list_issue_messages"} /\ s.phase = "http"
              /\ n # s /\ logged'.error = "none"
              /\ Latest = m
              /\ s.pc = "list_issue_messages" => Len(upstream) <= IssueChatCap
              => (n.pc \in PostCalls <=> age <= ReplyWindow)
           /\ n.pc \in PostCalls /\ s.pc \notin PostCalls /\ n.tracked =>
                age <= ReplyWindow ]_vars
\* the reply to the buyer's message failed twice, in two cycles, and a later cycle
\* has found the message too old
C22_Witness ==
  /\ hist.failed = 2 /\ hist.posts = 0
  /\ logged.line = "decision" /\ logged.last = hist.event.msg
  /\ decided.reason = "message too old"

====
